---------------------------- MODULE Spec2Model ----------------------------
(***************************************************************************)
(* Model of the blockchain transaction fee analyzers:                      *)
(*   src/networks/ethereum.py, src/networks/arbitrum.py (account model)    *)
(*   src/networks/litecoin.py (UTXO model)                                 *)
(* One run of main() of one analyzer is a behaviour of Spec.  The data     *)
(* source (block explorer API) is the environment: every outbound call     *)
(* draws its answer from a bounded set, a failed call included.            *)
(*                                                                         *)
(* Python strings are sequences of one-character strings, so that lower(), *)
(* startswith() and int(s, base) are computed and not assumed.             *)
(***************************************************************************)
EXTENDS Integers, Sequences, FiniteSets, TLC

(***************************************************************************)
(* Bounds of the model                                                     *)
(***************************************************************************)
\* SETTINGS["max_my_transactions"] (10 in config.example.py), scaled down
MAX_MY_TRANSACTIONS == 1
\* SETTINGS["max_network_examples"] (20 in config.example.py), scaled down
MAX_NETWORK_EXAMPLES == 1
\* most block transactions the data source returns over one sampling pass
MaxScanned == 2
\* significand bits of a float (53 in CPython), scaled down with the
\* magnitudes of the model's numbers
MantissaBits == 5
\* longest record list the aggregation is applied to on its own
MaxRecords == 3

(***************************************************************************)
(* Strings                                                                 *)
(***************************************************************************)
\* Python None (also: key absent and dict.get without default)
None == <<"<None>">>

\* truthiness of an optional string: None and "" are falsy
Truthy(s) == s # None /\ s # <<>>

LowerChar(c) ==
  CASE c = "A" -> "a" [] c = "B" -> "b" [] c = "C" -> "c"
    [] c = "D" -> "d" [] c = "E" -> "e" [] c = "F" -> "f"
    [] OTHER -> c

\* str.lower()
Lower(s) == [i \in DOMAIN s |-> LowerChar(s[i])]

\* str.startswith(p)
StartsWith(s, p) == Len(s) >= Len(p) /\ SubSeq(s, 1, Len(p)) = p

HexDigits == <<"0","1","2","3","4","5","6","7","8","9","a","b","c","d","e","f">>

\* value of one digit character, -1 when it is no hexadecimal digit
DigitVal(c) ==
  LET l == LowerChar(c)
      hit == {i \in 1..16 : HexDigits[i] = l}
  IN  IF hit = {} THEN -1 ELSE (CHOOSE i \in hit : TRUE) - 1

\* the result standing for an int() call that raises ValueError
ValueError == 0 - 1

RECURSIVE DigitsVal(_, _, _)
\* the digits ds read in the given base, acc carried; ValueError on a bad digit
DigitsVal(ds, base, acc) ==
  IF ds = <<>> THEN acc
  ELSE IF DigitVal(Head(ds)) < 0 \/ DigitVal(Head(ds)) >= base THEN ValueError
  ELSE DigitsVal(Tail(ds), base, acc * base + DigitVal(Head(ds)))

HasHexPrefix(s) == Len(s) >= 2 /\ s[1] = "0" /\ s[2] \in {"x", "X"}

\* Python int(s, base) for base in {0, 10, 16} on an unsigned literal
ParseInt(s, base) ==
  IF s = <<>> THEN ValueError
  ELSE IF base = 16 THEN
    (IF HasHexPrefix(s)
       THEN (IF Len(s) = 2 THEN ValueError ELSE DigitsVal(SubSeq(s, 3, Len(s)), 16, 0))
       ELSE DigitsVal(s, 16, 0))
  ELSE IF base = 10 THEN DigitsVal(s, 10, 0)
  ELSE \* base 0: the literal's prefix decides; a decimal has no leading zero
    (IF HasHexPrefix(s)
       THEN (IF Len(s) = 2 THEN ValueError ELSE DigitsVal(SubSeq(s, 3, Len(s)), 16, 0))
       ELSE IF Len(s) > 1 /\ s[1] = "0" /\ DigitsVal(s, 10, 0) # 0 THEN ValueError
       ELSE DigitsVal(s, 10, 0))

\* dict.get(key, default) on a field that may be absent
Get(v, default) == IF v = None THEN default ELSE v

(***************************************************************************)
(* Rationals (Python floats of exact quotients), as <<numerator, denom>>   *)
(***************************************************************************)
RECURSIVE GCD(_, _)
GCD(a, b) == IF b = 0 THEN a ELSE GCD(b, a % b)

Abs(x) == IF x < 0 THEN -x ELSE x

Rat(n, d) ==
  LET g == GCD(Abs(n), Abs(d))
  IN  IF n = 0 THEN <<0, 1>>
      ELSE IF d < 0 THEN <<(-n) \div g, (-d) \div g>> ELSE <<n \div g, d \div g>>

RLess(p, q) == p[1] * q[2] < q[1] * p[2]
RLeq(p, q) == p[1] * q[2] <= q[1] * p[2]
RSub(p, q) == Rat(p[1] * q[2] - q[1] * p[2], p[2] * q[2])
RAdd(p, q) == Rat(p[1] * q[2] + q[1] * p[2], p[2] * q[2])
RMul(p, q) == Rat(p[1] * q[1], p[2] * q[2])
\* p / q for q # 0
RDiv(p, q) == Rat(p[1] * q[2], p[2] * q[1])
RInt(n) == <<n, 1>>

RECURSIVE FloatRound(_, _, _)
\* the float nearest to (n / d) * 2^k for n >= 0, d > 0: the quotient is
\* scaled into [2^(MantissaBits-1), 2^MantissaBits), rounded to an integer
\* (ties to even) and scaled back
FloatRound(n, d, k) ==
  IF n = 0 THEN <<0, 1>>
  ELSE IF n >= d * 2^MantissaBits THEN FloatRound(n, 2 * d, k + 1)
  ELSE IF n < d * 2^(MantissaBits - 1) THEN FloatRound(2 * n, d, k - 1)
  ELSE LET q == n \div d
           r == n % d
           m == IF 2 * r > d \/ (2 * r = d /\ q % 2 = 1) THEN q + 1 ELSE q
       IN  IF k >= 0 THEN Rat(m * 2^k, 1) ELSE Rat(m, 2^(0 - k))

\* n / d on two non-negative ints: Python's true division, which returns
\* the float nearest to the quotient
FloatDiv(n, d) == FloatRound(n, d, 0)

(***************************************************************************)
(* Configuration (config/config.py)                                        *)
(***************************************************************************)
AccountNets == {"ethereum", "arbitrum"}
Nets == AccountNets \cup {"litecoin"}

ZERO_ADDRESS == <<"0","x","0","0">>
PLACEHOLDER_KEY == <<"Y","O","U","R">>

\* TOKENS[net]: token name and contract address, in the dict's order.  The
\* third configured token (usdc) is handled by the same code path as usdt.
NETWORK_TOKENS(n) ==
  IF n = "ethereum"
    THEN << <<"eth", ZERO_ADDRESS>>, <<"usdt", <<"0","x","d","A","C","1">>>> >>
    ELSE << <<"eth", ZERO_ADDRESS>>, <<"usdt", <<"0","x","f","d","0","8">>>> >>

TokenNames(n) == {NETWORK_TOKENS(n)[i][1] : i \in DOMAIN NETWORK_TOKENS(n)}

\* the addresses a run may be configured with: missing, or a mixed-case address
ConfiguredAddresses == {<<>>, <<"0","x","A","b">>}
ConfiguredKeys == {<<>>, PLACEHOLDER_KEY, <<"k","1">>}


(***************************************************************************)
(* State                                                                   *)
(***************************************************************************)
VARIABLES
  net,                \* which analyzer runs
  MY_ADDRESS,         \* ADDRESSES[net], "" when not configured
  API_KEY,            \* ETHERSCAN_API_KEY (account-model analyzers only)
  pc,                 \* position of main()
  calls,              \* outbound data-source calls and sleeps, in order
  log,                \* logging.warning / logging.error records, in order
  exception,          \* the exception that left main(), "none" otherwise
  outputs,            \* artifacts emitted: data file, printed table, report file
  tokIdx,             \* collect_my_transactions: index into NETWORK_TOKENS
  my_transactions,    \* collect_my_transactions: records collected
  blocks_to_analyze,  \* collect_my_transactions: set of block numbers
  blocks,             \* list(blocks_to_analyze) as main() holds it
  tokens_in_my_txs,   \* set of the tokens of my_transactions
  tokens_analyzed,    \* list(tokens_in_my_txs) as the output data holds it
  blkIdx,             \* sampling loop: index of the current block
  txIdx,              \* sampling loop: transactions scanned so far in the pass
  txsLeft,            \* sampling loop: transactions of the block still to come
  token_counters,     \* collect_network_transfers: per-token counter
  network_data,       \* collect_network_transfers: records collected
  table_data,         \* generate_report: rows of the table
  our_stats,          \* litecoin: get_our_transactions_stats() result
  recent_blocks,      \* litecoin: get_recent_blocks() result
  network_transactions, \* litecoin: analyze_network_transactions() records
  c_in,               \* a function applied on its own: the arguments drawn
  c_out               \* a function applied on its own: the value returned

runVars == <<net, MY_ADDRESS, API_KEY, pc, calls, log, exception, outputs,
             tokIdx, my_transactions, blocks_to_analyze, blocks,
             tokens_in_my_txs, tokens_analyzed, blkIdx, txIdx, txsLeft,
             token_counters, network_data, table_data, our_stats, recent_blocks,
             network_transactions>>
vars == <<runVars, c_in, c_out>>

acctVars == <<tokIdx, my_transactions, blocks_to_analyze, blocks,
              tokens_in_my_txs, tokens_analyzed, token_counters, network_data, table_data>>
ltcVars == <<our_stats, recent_blocks, network_transactions>>
cfgVars == <<net, MY_ADDRESS, API_KEY>>
classVars == <<c_in, c_out>>

\* an outbound call: operation, argument (a tuple of integers), success
Call(op, arg, ok) == <<op, arg, ok>>
\* time.sleep between calls
Sleep == <<"sleep", <<>>, TRUE>>

\* all orders in which the elements of a finite set can be listed
Perms(S) ==
  {f \in [1..Cardinality(S) -> S] : \A i, j \in 1..Cardinality(S) : i # j => f[i] # f[j]}

(***************************************************************************)
(* Data-source answers (account model)                                     *)
(***************************************************************************)
\* entries of a txlist / tokentx answer: decimal strings
OwnRawTxs ==
  { [hash |-> <<"a">>, blockNumber |-> None,    gasUsed |-> <<"3">>, gasPrice |-> <<"2">>, gas |-> <<"4">>],
    [hash |-> <<"b">>, blockNumber |-> <<"1">>, gasUsed |-> <<"3">>, gasPrice |-> <<"2">>, gas |-> <<"4">>],
    [hash |-> <<"c">>, blockNumber |-> <<"2">>, gasUsed |-> <<"1","0">>, gasPrice |-> <<"3">>, gas |-> <<"1","2">>] }

SeqsUpTo(S, n) == UNION {[1..k -> S] : k \in 0..n}

\* the block number collect_my_transactions reads from a list entry
BlockOf(tx) == ParseInt(Get(tx.blockNumber, <<"0">>), 10)

\* "sort": "desc": the entries of an answer come newest block first
NewestFirst(l) == \A i \in 1..(Len(l) - 1) : BlockOf(l[i]) >= BlockOf(l[i + 1])

\* a list names no transaction twice
NoRepeat(l) == \A i, j \in DOMAIN l : l[i] = l[j] => i = j

\* an answer of one entry more than the `offset` asked for: transactions of
\* block 1, the i-th with a hash of i letters
LongAnswer ==
  [i \in 1..(MAX_MY_TRANSACTIONS + 1) |->
     [hash |-> [j \in 1..i |-> "b"], blockNumber |-> <<"1">>, gasUsed |-> <<"3">>,
      gasPrice |-> <<"2">>, gas |-> <<"4">>]]

\* what get_transactions can return: [] after a failure, else data["result"]
\* as the source sent it: up to `offset` entries, or more from a source that
\* does not honour `offset`
OwnAnswers ==
  {[ok |-> FALSE, txs |-> <<>>]} \cup
  {[ok |-> TRUE, txs |-> l] :
     l \in {m \in SeqsUpTo(OwnRawTxs, MAX_MY_TRANSACTIONS) : NewestFirst(m) /\ NoRepeat(m)}
            \cup {LongAnswer}}

SELECTOR == <<"0","x","a","9","0","5","9","c","b","b">>

\* the address the run is configured with, when it is configured
OwnAddr == <<"0","x","A","b">>

AcctTx(from, to, value, input) ==
  [from |-> from, to |-> to, value |-> value, input |-> input,
   gasPrice |-> <<"0","x","2">>, gas |-> <<"0","x","a">>]

OtherAddr == <<"0","x","c","c">>
NoData == <<"0","x">>
TransferData == SELECTOR \o <<"0","1">>

\* transactions of an eth_getBlockByNumber answer: hexadecimal strings, the
\* addresses in lower case
BlockTxs(n) ==
  { \* a plain native transfer between other parties
    AcctTx(OtherAddr, <<"0","x","e","e">>, <<"0","x","1">>, NoData),
    \* a native transfer sent by the user's own address
    AcctTx(Lower(OwnAddr), <<"0","x","e","e">>, <<"0","x","1">>, NoData),
    \* a token transfer call to the usdt contract that also carries value
    AcctTx(OtherAddr, Lower(NETWORK_TOKENS(n)[2][2]), <<"0","x","1">>, TransferData),
    \* a contract creation: no recipient
    AcctTx(OtherAddr, None, <<"0","x","0">>, <<"0","x","6","0">>) }

\* the wider set of transactions is_token_transfer is applied to on its own
ClassifyTxs(n) ==
  [ from     : {OtherAddr},
    to       : {None, <<>>, NETWORK_TOKENS(n)[2][2], Lower(NETWORK_TOKENS(n)[2][2]),
                <<"0","x","e","e">>},
    value    : {None, <<"0","x","0">>, <<"0","x","1">>, <<"0","x","1","0">>},
    input    : {<<>>, NoData, TransferData,
                <<"0","x","a","9","0","5","9","c","b","c","0","1">>,
                <<"0","x","a","9","0","5">>},
    gasPrice : {<<"0","x","2">>},
    gas      : {<<"0","x","a">>} ]

\* what get_transaction_receipt can return and whether the call succeeded
\* (a failed call returns None)
Receipts ==
  { [ok |-> FALSE, found |-> FALSE, gasUsed |-> None],
    [ok |-> TRUE,  found |-> TRUE,  gasUsed |-> <<"0","x","5">>] }

(***************************************************************************)
(* Account model: classifier                                               *)
(***************************************************************************)
\* ethereum.py is_token_transfer, native branch
is_native_transfer_ethereum(tx) ==
  Truthy(tx.to) /\ ParseInt(Get(tx.value, <<"0">>), 16) > 0

\* arbitrum.py is_token_transfer, native branch
is_native_transfer_arbitrum(tx) ==
  /\ Truthy(tx.to)
  /\ ParseInt(Get(tx.value, <<"0">>), 0) > 0
  /\ (tx.input = <<"0","x">> \/ tx.input = <<>>)

\* a token branch that compares the recipient with the contract address as
\* written, without .lower()
is_contract_transfer_as_written(tx, token_address) ==
  /\ Truthy(tx.to)
  /\ tx.to = token_address
  /\ StartsWith(Get(tx.input, <<>>), SELECTOR)

\* is_token_transfer, token branch (the same in both analyzers)
is_contract_transfer(tx, token_address) ==
  /\ Truthy(tx.to)
  /\ Lower(tx.to) = Lower(token_address)
  /\ StartsWith(Get(tx.input, <<>>), SELECTOR)

is_token_transfer(n, tx, token_address) ==
  IF token_address = ZERO_ADDRESS
    THEN (IF n = "ethereum" THEN is_native_transfer_ethereum(tx)
                            ELSE is_native_transfer_arbitrum(tx))
    ELSE is_contract_transfer(tx, token_address)

(***************************************************************************)
(* Account model: main(), configuration checks                             *)
(***************************************************************************)
\* configuration checks that stop at the address and never look at the key
config_error_address_only(addr, key) ==
  IF ~Truthy(addr) THEN "address" ELSE "none"

\* main(): the two configuration checks that precede any analysis step
config_error_acct(addr, key) ==
  IF ~Truthy(addr) THEN "address"
  ELSE IF ~Truthy(key) \/ key = PLACEHOLDER_KEY THEN "api_key"
  ELSE "none"

MainAcct ==
  /\ pc = "start"
  /\ net \in AccountNets
  /\ IF config_error_acct(MY_ADDRESS, API_KEY) # "none"
       THEN /\ log' = Append(log, <<"error", config_error_acct(MY_ADDRESS, API_KEY)>>)
            /\ pc' = "done"
            /\ tokIdx' = tokIdx
       ELSE /\ log' = log
            /\ pc' = "collect"
            /\ tokIdx' = 1
  /\ UNCHANGED <<classVars, cfgVars, calls, exception, outputs, my_transactions,
                 blocks_to_analyze, blocks, tokens_in_my_txs, tokens_analyzed,
                 blkIdx, txIdx,
                 txsLeft, token_counters, network_data, table_data, ltcVars>>

(***************************************************************************)
(* Account model: collect_my_transactions                                  *)
(***************************************************************************)
\* get_transactions: the API action chosen for a contract address argument
get_transactions_action(n, contract_address) ==
  IF n = "ethereum"
    THEN (IF Truthy(contract_address) THEN "tokentx" ELSE "txlist")
    ELSE (IF Truthy(contract_address) /\ contract_address # ZERO_ADDRESS
            THEN "tokentx" ELSE "txlist")

\* the record collect_my_transactions builds from one list entry
own_record(token_name, tx) ==
  [ token     |-> token_name,
    hash      |-> Get(tx.hash, <<>>),
    block     |-> ParseInt(Get(tx.blockNumber, <<"0">>), 10),
    gas_used  |-> ParseInt(Get(tx.gasUsed, <<"0">>), 10),
    gas_price |-> ParseInt(Get(tx.gasPrice, <<"0">>), 10),
    gas_limit |-> ParseInt(Get(tx.gas, <<"0">>), 10),
    fee       |-> ParseInt(Get(tx.gasUsed, <<"0">>), 10)
                    * ParseInt(Get(tx.gasPrice, <<"0">>), 10) ]

\* every entry kept, whatever its block number
own_kept_all(txs) == txs

\* the entries of a list answer that collect_my_transactions keeps
own_kept(txs) ==
  SelectSeq(txs, LAMBDA tx : ParseInt(Get(tx.blockNumber, <<"0">>), 10) > 0)

own_records(token_name, txs) ==
  [i \in 1..Len(own_kept(txs)) |-> own_record(token_name, own_kept(txs)[i])]

\* a block set that keeps only the blocks of the last token's records
add_blocks_last_token(block_set, recs) ==
  IF recs = <<>> THEN block_set ELSE {recs[i].block : i \in DOMAIN recs}

\* blocks_to_analyze.add(block_number) for every record kept
add_blocks(block_set, recs) == block_set \cup {recs[i].block : i \in DOMAIN recs}

\* one iteration of the loop over NETWORK_TOKENS
CollectToken ==
  /\ pc = "collect"
  /\ tokIdx <= Len(NETWORK_TOKENS(net))
  /\ \E ans \in OwnAnswers :
       LET token_name == NETWORK_TOKENS(net)[tokIdx][1]
           token_address == NETWORK_TOKENS(net)[tokIdx][2]
           contract == IF token_name = "eth" THEN None ELSE token_address
           recs == own_records(token_name, ans.txs)
       IN  /\ calls' = calls \o
                 << Call(get_transactions_action(net, contract), <<tokIdx>>, ans.ok),
                    Sleep >>
           /\ my_transactions' = my_transactions \o recs
           /\ blocks_to_analyze' = add_blocks(blocks_to_analyze, recs)
  /\ tokIdx' = tokIdx + 1
  /\ pc' = IF tokIdx = Len(NETWORK_TOKENS(net)) THEN "collected" ELSE "collect"
  /\ UNCHANGED <<classVars, cfgVars, log, exception, outputs, blocks, tokens_in_my_txs,
                 tokens_analyzed,
                 blkIdx, txIdx, txsLeft, token_counters, network_data,
                 table_data, ltcVars>>

TokensOf(txs) == {txs[i].token : i \in DOMAIN txs}

\* main(): return of collect_my_transactions up to the sampling call.
\* list(blocks_to_analyze) enumerates a set in an order Python leaves open.
AfterCollect ==
  /\ pc = "collected"
  /\ IF my_transactions = <<>>
       THEN /\ log' = Append(log, <<"warning", "no_user_transactions">>)
            /\ pc' = "done"
            /\ UNCHANGED <<blocks, tokens_in_my_txs, blkIdx>>
       ELSE /\ blocks' \in Perms(blocks_to_analyze)
            /\ tokens_in_my_txs' = TokensOf(my_transactions)
            /\ blkIdx' = 1
            /\ pc' = "sample"
            /\ log' = log
  /\ UNCHANGED <<classVars, cfgVars, calls, exception, outputs, tokIdx, my_transactions,
                 blocks_to_analyze, tokens_analyzed, txIdx, txsLeft,
                 token_counters, network_data, table_data, ltcVars>>

(***************************************************************************)
(* Account model: collect_network_transfers                                *)
(***************************************************************************)
\* the counters as the loop over blocks sets them for a block
fresh_counters(tokens_to_find) == [t \in tokens_to_find |-> 0]

\* a test that lets one example more through
at_cap_above(count) == count > MAX_NETWORK_EXAMPLES

\* whether a token's counter stops further examples of it
at_cap(count) == count >= MAX_NETWORK_EXAMPLES

\* get_block_transactions(block) and the start of the block's iteration
FetchBlock ==
  /\ pc = "sample"
  /\ blkIdx <= Len(blocks)
  /\ \E ok \in BOOLEAN, k \in 0..(MaxScanned - txIdx) :
       /\ ~ok => k = 0
       /\ calls' = Append(calls, Call("get_block_transactions", <<blocks[blkIdx]>>, ok))
       /\ txsLeft' = k
  /\ txIdx' = txIdx
  /\ token_counters' = fresh_counters(tokens_in_my_txs)
  /\ pc' = "scan"
  /\ UNCHANGED <<classVars, cfgVars, log, exception, outputs, tokIdx, my_transactions,
                 blocks_to_analyze, blocks, tokens_in_my_txs, tokens_analyzed,
                 blkIdx,
                 network_data, table_data, ltcVars>>

\* whether the loop over a block's transactions skips tx as the user's own
skip_own(n, tx, my_address) ==
  IF n = "arbitrum" THEN Lower(Get(tx.from, <<>>)) = Lower(my_address)
  ELSE FALSE

\* a record whose gas_used is the gas limit of the transaction, the receipt
\* left unread
transfer_record_gas_limit(token_name, tx, hash, block, receipt) ==
  [ token     |-> token_name,
    hash      |-> hash,
    block     |-> block,
    gas_used  |-> ParseInt(Get(tx.gas, <<"0">>), 16),
    gas_price |-> ParseInt(Get(tx.gasPrice, <<"0">>), 16),
    gas_limit |-> ParseInt(Get(tx.gas, <<"0">>), 16),
    fee       |-> ParseInt(Get(tx.gas, <<"0">>), 16)
                    * ParseInt(Get(tx.gasPrice, <<"0">>), 16) ]

\* the record collect_network_transfers builds for a matched transaction
transfer_record(token_name, tx, hash, block, receipt) ==
  [ token     |-> token_name,
    hash      |-> hash,
    block     |-> block,
    gas_used  |-> ParseInt(Get(receipt.gasUsed, <<"0">>), 16),
    gas_price |-> ParseInt(Get(tx.gasPrice, <<"0">>), 16),
    gas_limit |-> ParseInt(Get(tx.gas, <<"0">>), 16),
    fee       |-> ParseInt(Get(receipt.gasUsed, <<"0">>), 16)
                    * ParseInt(Get(tx.gasPrice, <<"0">>), 16) ]

RECURSIVE scan_tokens_counting_misses(_, _, _)
\* the inner loop with the counter raised for every match, the receipt
\* found or not
scan_tokens_counting_misses(i, st, ctx) ==
  IF i > Len(NETWORK_TOKENS(ctx.n)) THEN st
  ELSE
    LET token_name == NETWORK_TOKENS(ctx.n)[i][1]
        token_address == NETWORK_TOKENS(ctx.n)[i][2]
    IN  IF token_name \notin ctx.find THEN scan_tokens_counting_misses(i + 1, st, ctx)
        ELSE IF at_cap(st.tc[token_name]) THEN scan_tokens_counting_misses(i + 1, st, ctx)
        ELSE IF is_token_transfer(ctx.n, ctx.tx, token_address)
          THEN LET r == ctx.rc[i]
                   st1 == [st EXCEPT !.calls =
                             Append(@, Call("get_transaction_receipt", ctx.hash, r.ok)),
                                     !.tc[token_name] = @ + 1]
               IN  IF r.found
                     THEN scan_tokens_counting_misses(i + 1,
                            [st1 EXCEPT
                               !.nd = Append(@, transfer_record(token_name, ctx.tx,
                                                   ctx.hash, ctx.block, r))],
                            ctx)
                     ELSE scan_tokens_counting_misses(i + 1, st1, ctx)
          ELSE scan_tokens_counting_misses(i + 1, st, ctx)

RECURSIVE scan_tokens(_, _, _)
\* the inner loop over NETWORK_TOKENS for one transaction, from token i on;
\* st = [nd, tc, calls], ctx = [n, tx, hash, block, rc, find]
scan_tokens(i, st, ctx) ==
  IF i > Len(NETWORK_TOKENS(ctx.n)) THEN st
  ELSE
    LET token_name == NETWORK_TOKENS(ctx.n)[i][1]
        token_address == NETWORK_TOKENS(ctx.n)[i][2]
    IN  IF token_name \notin ctx.find THEN scan_tokens(i + 1, st, ctx)
        ELSE IF at_cap(st.tc[token_name]) THEN scan_tokens(i + 1, st, ctx)
        ELSE IF is_token_transfer(ctx.n, ctx.tx, token_address)
          THEN LET r == ctx.rc[i]
                   st1 == [st EXCEPT !.calls =
                             Append(@, Call("get_transaction_receipt", ctx.hash, r.ok))]
               IN  IF r.found
                     THEN scan_tokens(i + 1,
                            [st1 EXCEPT
                               !.nd = Append(@, transfer_record(token_name, ctx.tx,
                                                   ctx.hash, ctx.block, r)),
                               !.tc[token_name] = @ + 1],
                            ctx)
                     ELSE scan_tokens(i + 1, st1, ctx)
          ELSE scan_tokens(i + 1, st, ctx)

\* the body of the loop over txs_in_block for the transaction tx, the
\* receipt calls it issues answered by rc
scan_tx(n, tx, rc, st, hash, block, find, my_address) ==
  IF skip_own(n, tx, my_address) THEN st
  ELSE scan_tokens(1, st,
         [n |-> n, tx |-> tx, hash |-> hash, block |-> block, rc |-> rc, find |-> find])

ScanTxWith(tx, rc) ==
  /\ pc = "scan"
  /\ txsLeft > 0
  /\ LET st == scan_tx(net, tx, rc,
                  [nd |-> network_data, tc |-> token_counters, calls |-> calls],
                  <<blocks[blkIdx], txIdx + 1>>, blocks[blkIdx],
                  tokens_in_my_txs, MY_ADDRESS)
     IN  /\ network_data' = st.nd
         /\ token_counters' = st.tc
         /\ calls' = st.calls
  /\ txIdx' = txIdx + 1
  /\ txsLeft' = txsLeft - 1
  /\ UNCHANGED <<classVars, cfgVars, pc, log, exception, outputs, tokIdx, my_transactions,
                 blocks_to_analyze, blocks, tokens_in_my_txs, tokens_analyzed,
                 blkIdx,
                 table_data, ltcVars>>

ScanTx ==
  \E tx \in BlockTxs(net), rc \in [DOMAIN NETWORK_TOKENS(net) -> Receipts] :
    ScanTxWith(tx, rc)

\* the end of a block's iteration: time.sleep(0.3) and the next block
EndBlock ==
  /\ pc = "scan"
  /\ net \in AccountNets
  /\ txsLeft = 0
  /\ calls' = Append(calls, Sleep)
  /\ IF blkIdx = Len(blocks)
       THEN pc' = "report" /\ blkIdx' = blkIdx
       ELSE pc' = "sample" /\ blkIdx' = blkIdx + 1
  /\ UNCHANGED <<classVars, cfgVars, log, exception, outputs, tokIdx, my_transactions,
                 blocks_to_analyze, blocks, tokens_in_my_txs, tokens_analyzed,
                 txIdx, txsLeft,
                 token_counters, network_data, table_data, ltcVars>>

(***************************************************************************)
(* Account model: analyze_data, generate_report, the artifacts             *)
(***************************************************************************)
RECURSIVE SumField(_, _, _)
\* the running total of one field over the records of one token
SumField(txs, token, f) ==
  IF txs = <<>> THEN 0
  ELSE (IF Head(txs).token = token THEN Head(txs)[f] ELSE 0)
         + SumField(Tail(txs), token, f)

CountToken(txs, token) == Cardinality({i \in DOMAIN txs : txs[i].token = token})

\* analyze_data for one of the two record lists: only tokens that occur in
\* the list get an entry (the defaultdict creates entries on first use)
analyze_data(txs) ==
  [t \in TokensOf(txs) |->
     LET c == CountToken(txs, t)
     IN  [ count           |-> c,
           total_gas_used  |-> SumField(txs, t, "gas_used"),
           total_gas_price |-> SumField(txs, t, "gas_price"),
           total_gas_limit |-> SumField(txs, t, "gas_limit"),
           total_fee       |-> SumField(txs, t, "fee"),
           avg_gas_used    |-> FloatDiv(SumField(txs, t, "gas_used"), c),
           avg_gas_price   |-> FloatDiv(SumField(txs, t, "gas_price"), c),
           avg_gas_limit   |-> FloatDiv(SumField(txs, t, "gas_limit"), c),
           avg_fee         |-> FloatDiv(SumField(txs, t, "fee"), c) ]]

\* the difference as a fraction of the network value, not a percentage
percent_diff_fraction(mine, network) ==
  IF RLess(RInt(0), network) THEN RDiv(RSub(mine, network), network) ELSE RInt(0)

\* ((mine - network) / network * 100) if network > 0 else 0
percent_diff(mine, network) ==
  IF RLess(RInt(0), network)
    THEN RMul(RDiv(RSub(mine, network), network), RInt(100))
    ELSE RInt(0)

TOKEN_DISPLAY_NAMES(t) ==
  CASE t = "eth" -> "ETH" [] t = "usdt" -> "USDT" [] t = "usdc" -> "USDC"
    [] OTHER -> t

\* one row of the table; the values are kept as numbers, before the
\* fixed-point rendering of the cells
report_row(n, token_name, my_data, net_data) ==
  LET base ==
        [ token |-> TOKEN_DISPLAY_NAMES(token_name), key |-> token_name,
          my_count |-> my_data.count,
          my_avg_gas_used |-> my_data.avg_gas_used,
          my_avg_gas_limit |-> my_data.avg_gas_limit,
          my_avg_gas_price |-> my_data.avg_gas_price,
          my_avg_fee |-> my_data.avg_fee,
          network_count |-> net_data.count,
          network_avg_gas_used |-> net_data.avg_gas_used,
          network_avg_gas_limit |-> net_data.avg_gas_limit,
          network_avg_gas_price |-> net_data.avg_gas_price,
          network_avg_fee |-> net_data.avg_fee,
          fee_diff_percent |-> percent_diff(my_data.avg_fee, net_data.avg_fee),
          gas_limit_diff_percent |->
            percent_diff(my_data.avg_gas_limit, net_data.avg_gas_limit),
          \* arbitrum.py only; "n/a" in the ethereum table, which lacks the columns
          gas_used_diff_percent |->
            IF n = "arbitrum"
              THEN percent_diff(my_data.avg_gas_used, net_data.avg_gas_used)
              ELSE <<"n/a">>,
          gas_price_diff_percent |->
            IF n = "arbitrum"
              THEN percent_diff(my_data.avg_gas_price, net_data.avg_gas_price)
              ELSE <<"n/a">> ]
  IN  base

RECURSIVE generate_report_defaults(_, _, _, _)
\* a row for every token of the list, a side without statistics shown as zeros
generate_report_defaults(n, my_stats, network_stats, tokens) ==
  IF tokens = <<>> THEN <<>>
  ELSE
    LET t == Head(tokens)
        zeros == [count |-> 0, avg_gas_used |-> RInt(0), avg_gas_price |-> RInt(0),
                  avg_gas_limit |-> RInt(0), avg_fee |-> RInt(0)]
        mine == IF t \in DOMAIN my_stats THEN my_stats[t] ELSE zeros
        theirs == IF t \in DOMAIN network_stats THEN network_stats[t] ELSE zeros
    IN  <<report_row(n, t, mine, theirs)>>
          \o generate_report_defaults(n, my_stats, network_stats, Tail(tokens))

RECURSIVE generate_report(_, _, _, _)
\* the rows for the tokens of data["tokens_analyzed"], in that order
generate_report(n, my_stats, network_stats, tokens) ==
  IF tokens = <<>> THEN <<>>
  ELSE
    LET t == Head(tokens)
        rest == generate_report(n, my_stats, network_stats, Tail(tokens))
    IN  IF t \notin DOMAIN my_stats \/ t \notin DOMAIN network_stats
          THEN rest
          ELSE <<report_row(n, t, my_stats[t], network_stats[t])>> \o rest

\* main() after collect_network_transfers: the data file, the analysis,
\* the printed table and the report file, whatever the sample holds.
\* list(tokens_in_my_txs) enumerates a set of strings in an order Python
\* leaves open (string hashes are randomized per process).
ReportAcct ==
  /\ pc = "report"
  /\ net \in AccountNets
  /\ outputs' = outputs \cup {"data_file", "printed_table", "report_file"}
  /\ \E order \in Perms(tokens_in_my_txs) :
       /\ tokens_analyzed' = order
       /\ table_data' = generate_report(net, analyze_data(my_transactions),
                                        analyze_data(network_data), order)
  /\ pc' = "done"
  /\ UNCHANGED <<classVars, cfgVars, calls, log, exception, tokIdx, my_transactions,
                 blocks_to_analyze, blocks, tokens_in_my_txs, blkIdx, txIdx,
                 txsLeft, token_counters, network_data, ltcVars>>

(***************************************************************************)
(* UTXO model (litecoin.py): constants and data-source answers             *)
(***************************************************************************)
\* MAX_FEE = 8.0
MAX_FEE == 8
\* OUR_TRANSACTIONS_LIMIT (20 in litecoin.py), scaled down
OUR_TRANSACTIONS_LIMIT == 2
\* NETWORK_BLOCKS_LIMIT (20 in litecoin.py), scaled down
NETWORK_BLOCKS_LIMIT == 2
\* the CPFP heuristic: more than this many inputs ...
CPFP_MIN_INPUTS == 5
\* ... and a fee per byte below this
CPFP_MAX_RATE == 2

\* a numeric field that is absent from the answer
Absent == 0 - 1
GetN(v, default) == IF v = Absent THEN default ELSE v

Input(cb) == [is_coinbase |-> cb]
OneInput == <<Input(FALSE)>>
SixInputs == [i \in 1..6 |-> Input(FALSE)]
CoinbaseInput == <<Input(TRUE)>>

LtcTx(fee, weight, size, vin, confirmed) ==
  [fee |-> fee, weight |-> weight, size |-> size, vin |-> vin,
   vout |-> 2, confirmed |-> confirmed]

\* transactions of a block answer
LtcTxs ==
  { LtcTx(6, 8, 2, OneInput, TRUE),         \* 3.0 per byte
    LtcTx(3, 8, 2, SixInputs, TRUE),        \* 6 inputs at 1.5 per byte
    LtcTx(6, 8, 2, CoinbaseInput, TRUE),    \* coinbase
    LtcTx(17, 8, 2, OneInput, TRUE),        \* 8.5 per byte
    LtcTx(16, 8, 0, SixInputs, TRUE),       \* 6 inputs at 8.0 per byte, size 0
    LtcTx(0, 8, 2, OneInput, TRUE),         \* no fee
    LtcTx(6, 0, 3, SixInputs, TRUE),        \* no weight: 6 inputs at 2.0 per byte
    LtcTx(6, 0, 0, OneInput, TRUE) }        \* size 0

\* an entry of an address answer: a transaction with status.block_height,
\* which get_our_transactions_stats does not read
OwnLtcTx(tx, block_height) ==
  [fee |-> tx.fee, weight |-> tx.weight, size |-> tx.size, vin |-> tx.vin,
   vout |-> tx.vout, confirmed |-> tx.confirmed, block_height |-> block_height]

\* transactions of an address answer; the confirmed ones are in block 1
OwnLtcTxs ==
  { OwnLtcTx(LtcTx(6, 8, 2, OneInput, TRUE), 1),
    OwnLtcTx(LtcTx(6, 8, 2, OneInput, FALSE), Absent),        \* unconfirmed
    \* no weight: 6 inputs at 1.0 per byte
    OwnLtcTx(LtcTx(3, Absent, 3, SixInputs, TRUE), 1) }

\* what the address endpoint can return: a failure, or a list
OwnLtcAnswers ==
  {[ok |-> FALSE, txs |-> <<>>]} \cup
  {[ok |-> TRUE, txs |-> l] : l \in SeqsUpTo(OwnLtcTxs, OUR_TRANSACTIONS_LIMIT + 1)}

\* heights the chain-status endpoint can report
Heights == {1, 3}
\* what the /blocks endpoint can return: a failure, or a list of heights
BlocksAnswers ==
  { [ok |-> FALSE, heights |-> <<>>],
    [ok |-> TRUE,  heights |-> <<>>],
    [ok |-> TRUE,  heights |-> <<3, 2, 1>>] }

(***************************************************************************)
(* UTXO model: fee rate, CPFP heuristic, retention                         *)
(***************************************************************************)
\* calculate_fee_per_byte: <<fee_per_byte, vsize>>
calculate_fee_per_byte(tx) ==
  LET fee_litoshi == GetN(tx.fee, 0)
      weight == GetN(tx.weight, 0)
      vsize == IF weight > 0 THEN Rat(weight, 4) ELSE RInt(GetN(tx.size, 1))
      fee_per_byte == IF RLess(RInt(0), vsize) THEN RDiv(RInt(fee_litoshi), vsize)
                      ELSE RInt(0)
  IN  <<fee_per_byte, vsize>>

is_cpfp_transaction(tx) ==
  LET vin_count == Len(tx.vin)
      fee_litoshi == GetN(tx.fee, 0)
      vsize == IF GetN(tx.weight, 0) > 0 THEN Rat(GetN(tx.weight, 0), 4)
               ELSE RInt(GetN(tx.size, 1))
      fee_per_byte == IF RLess(RInt(0), vsize) THEN RDiv(RInt(fee_litoshi), vsize)
                      ELSE RInt(0)
  IN  vin_count > CPFP_MIN_INPUTS /\ RLess(fee_per_byte, RInt(CPFP_MAX_RATE))

has_coinbase_input(tx) == \E i \in DOMAIN tx.vin : tx.vin[i].is_coinbase

\* a fee range that is open at MAX_FEE: 0 < fee_per_byte < MAX_FEE
fee_in_range_open(fee_per_byte) ==
  RLess(RInt(0), fee_per_byte) /\ RLess(fee_per_byte, RInt(MAX_FEE))

\* 0 < fee_per_byte <= MAX_FEE
fee_in_range(fee_per_byte) ==
  RLess(RInt(0), fee_per_byte) /\ RLeq(fee_per_byte, RInt(MAX_FEE))

\* the body of the loop over a block's transactions: the sample after tx
scan_ltc_tx(sample, tx) ==
  IF has_coinbase_input(tx) THEN sample
  ELSE IF is_cpfp_transaction(tx) THEN sample
  ELSE IF fee_in_range(calculate_fee_per_byte(tx)[1])
    THEN Append(sample,
           [ fee_per_byte |-> calculate_fee_per_byte(tx)[1],
             size    |-> GetN(tx.size, 0),
             weight  |-> GetN(tx.weight, 0),
             inputs  |-> Len(tx.vin),
             outputs |-> tx.vout,
             vsize   |-> calculate_fee_per_byte(tx)[2] ])
    ELSE sample

(***************************************************************************)
(* UTXO model: statistics.median                                           *)
(***************************************************************************)
RECURSIVE InsertSorted(_, _)
InsertSorted(s, x) ==
  IF s = <<>> THEN <<x>>
  ELSE IF RLeq(x, Head(s)) THEN <<x>> \o s
  ELSE <<Head(s)>> \o InsertSorted(Tail(s), x)

RECURSIVE SortRats(_)
\* sorted(data)
SortRats(s) == IF s = <<>> THEN <<>> ELSE InsertSorted(SortRats(Tail(s)), Head(s))

\* the upper of the two middle values taken for an even-sized list
median_upper_middle(data) ==
  LET s == SortRats(data)
  IN  s[Len(s) \div 2 + 1]

\* statistics.median on a non-empty list of rationals
median(data) ==
  LET s == SortRats(data)
      k == Len(s)
  IN  IF k % 2 = 1 THEN s[(k + 1) \div 2]
      ELSE RDiv(RAdd(s[k \div 2], s[k \div 2 + 1]), RInt(2))

Ints(s) == [i \in DOMAIN s |-> RInt(s[i])]

(***************************************************************************)
(* UTXO model: main(), get_our_transactions_stats                          *)
(***************************************************************************)
\* main(): the configuration check that precedes any analysis step
config_error_ltc(addr) == IF ~Truthy(addr) THEN "address" ELSE "none"

MainLtc ==
  /\ pc = "start"
  /\ net = "litecoin"
  /\ IF config_error_ltc(MY_ADDRESS) # "none"
       THEN /\ log' = Append(log, <<"error", config_error_ltc(MY_ADDRESS)>>)
            /\ pc' = "done"
       ELSE /\ log' = log
            /\ pc' = "our_stats"
  /\ UNCHANGED <<classVars, cfgVars, calls, exception, outputs, blkIdx, txIdx, txsLeft,
                 acctVars, ltcVars>>

Take(s, k) == SubSeq(s, 1, IF Len(s) < k THEN Len(s) ELSE k)

\* the statistics get_our_transactions_stats returns for the answer's list:
\* <<>> for None, <<stats>> otherwise
our_transactions_stats(txs) ==
  LET our_txs == Take(txs, OUR_TRANSACTIONS_LIMIT)
      conf == SelectSeq(our_txs, LAMBDA tx : tx.confirmed)
      fees == [i \in DOMAIN conf |-> calculate_fee_per_byte(conf[i])[1]]
      sizes == [i \in DOMAIN conf |-> RInt(GetN(conf[i].size, 0))]
      weights == [i \in DOMAIN conf |-> RInt(GetN(conf[i].weight, 0))]
      inputs == [i \in DOMAIN conf |-> RInt(Len(conf[i].vin))]
      outs == [i \in DOMAIN conf |-> RInt(conf[i].vout)]
  IN  IF fees = <<>> THEN <<>>
      ELSE << [ avg_fee_per_byte |-> median(fees),
                avg_size    |-> median(sizes),
                avg_weight  |-> median(weights),
                avg_inputs  |-> median(inputs),
                avg_outputs |-> median(outs),
                total_txs   |-> Len(fees) ] >>

\* get_our_transactions_stats() answered by ans, and main()'s test of its
\* result
OurStatsWith(ans) ==
  /\ pc = "our_stats"
  /\ LET stats == IF ans.ok THEN our_transactions_stats(ans.txs) ELSE <<>>
     IN  /\ calls' = Append(calls, Call("address_txs", <<>>, ans.ok))
         /\ our_stats' = stats
         /\ IF stats = <<>>
              THEN /\ log' = log \o
                        (IF ans.ok THEN << <<"warning", "no_confirmed_transactions">> >>
                         ELSE <<>>)
                        \o << <<"warning", "no_user_statistics">> >>
                   /\ pc' = "done"
              ELSE /\ log' = log
                   /\ pc' = "recent_blocks"
  /\ UNCHANGED <<classVars, cfgVars, exception, outputs, blkIdx, txIdx, txsLeft, acctVars,
                 recent_blocks, network_transactions>>

OurStats == \E ans \in OwnLtcAnswers : OurStatsWith(ans)

(***************************************************************************)
(* UTXO model: get_recent_blocks, analyze_network_transactions             *)
(***************************************************************************)
Max(a, b) == IF a > b THEN a ELSE b

\* list(range(start_height, current_height + 1))
recent_from_height(current_height, limit) ==
  LET start_height == Max(1, current_height - limit + 1)
  IN  [i \in 1..(current_height - start_height + 1) |-> start_height + i - 1]

\* get_recent_blocks(limit): the calls it issues, the list it returns and the
\* exception it raises, for every answer of the two endpoints.  A status
\* answer that is a JSON object without the key 'blocks' raises KeyError at
\* blockchain_info['blocks'], outside the try block.
get_recent_blocks(limit) ==
  {[calls  |-> << Call("blockchain_status", <<>>, TRUE) >>,
    blocks |-> recent_from_height(h, limit),
    raised |-> "none"] : h \in Heights}
  \cup
  {[calls  |-> << Call("blockchain_status", <<>>, TRUE) >>,
    blocks |-> <<>>,
    raised |-> "KeyError"]}
  \cup
  {[calls  |-> << Call("blockchain_status", <<>>, FALSE),
                  Call("blocks", <<>>, b.ok) >>,
    blocks |-> Take(b.heights, limit),
    raised |-> "none"] : b \in BlocksAnswers}

\* what line 164 does with the list of blocks: min() and max() of an empty
\* list raise ValueError
blocks_log_error(blks) == IF blks = <<>> THEN "ValueError" ELSE "none"

\* analyze_network_transactions: get_recent_blocks(NETWORK_BLOCKS_LIMIT) and
\* the log line that follows it
RecentBlocks ==
  /\ pc = "recent_blocks"
  /\ \E r \in get_recent_blocks(NETWORK_BLOCKS_LIMIT) :
       LET raised == IF r.raised # "none" THEN r.raised
                     ELSE blocks_log_error(r.blocks)
       IN  /\ calls' = calls \o r.calls
           /\ recent_blocks' = r.blocks
           /\ IF raised # "none"
                THEN /\ exception' = raised
                     /\ pc' = "crashed"
                     /\ blkIdx' = blkIdx
                ELSE /\ exception' = exception
                     /\ pc' = "ltc_sample"
                     /\ blkIdx' = 1
  /\ UNCHANGED <<classVars, cfgVars, log, outputs, txIdx, txsLeft, acctVars, our_stats,
                 network_transactions>>

\* get_block_transactions(block_height); an empty answer skips the block
FetchBlockLtc ==
  /\ pc = "ltc_sample"
  /\ blkIdx <= Len(recent_blocks)
  /\ \E ok1 \in BOOLEAN, ok2 \in BOOLEAN, k \in 0..(MaxScanned - txIdx) :
       /\ ~ok1 => ~ok2
       /\ ~ok2 => k = 0
       /\ calls' = calls
            \o << Call("block_height", <<recent_blocks[blkIdx]>>, ok1) >>
            \o (IF ok1 THEN << Call("block_txs", <<recent_blocks[blkIdx]>>, ok2) >>
                ELSE <<>>)
       /\ txsLeft' = k
       /\ IF k = 0
            THEN IF blkIdx = Len(recent_blocks)
                   THEN pc' = "ltc_report" /\ blkIdx' = blkIdx
                   ELSE pc' = "ltc_sample" /\ blkIdx' = blkIdx + 1
            ELSE pc' = "ltc_scan" /\ blkIdx' = blkIdx
  /\ txIdx' = txIdx
  /\ UNCHANGED <<classVars, cfgVars, log, exception, outputs, acctVars, ltcVars>>

ScanTxLtcWith(tx) ==
  /\ pc = "ltc_scan"
  /\ txsLeft > 0
  /\ network_transactions' = scan_ltc_tx(network_transactions, tx)
  /\ txIdx' = txIdx + 1
  /\ txsLeft' = txsLeft - 1
  /\ UNCHANGED <<classVars, cfgVars, pc, calls, log, exception, outputs, blkIdx, acctVars,
                 our_stats, recent_blocks>>

ScanTxLtc == \E tx \in LtcTxs : ScanTxLtcWith(tx)

\* the end of a block's iteration: time.sleep(0.2) and the next block
EndBlockLtc ==
  /\ pc = "ltc_scan"
  /\ txsLeft = 0
  /\ calls' = Append(calls, Sleep)
  /\ IF blkIdx = Len(recent_blocks)
       THEN pc' = "ltc_report" /\ blkIdx' = blkIdx
       ELSE pc' = "ltc_sample" /\ blkIdx' = blkIdx + 1
  /\ UNCHANGED <<classVars, cfgVars, log, exception, outputs, txIdx, txsLeft, acctVars,
                 ltcVars>>

(***************************************************************************)
(* UTXO model: the comparison table and the report                         *)
(***************************************************************************)
Column(sample, f) == [i \in DOMAIN sample |-> sample[i][f]]

network_stats_ltc(sample) ==
  [ avg_fee_per_byte |-> median(Column(sample, "fee_per_byte")),
    avg_size    |-> median(Ints(Column(sample, "size"))),
    avg_weight  |-> median(Ints(Column(sample, "weight"))),
    avg_inputs  |-> median(Ints(Column(sample, "inputs"))),
    avg_outputs |-> median(Ints(Column(sample, "outputs"))),
    avg_vsize   |-> median(Column(sample, "vsize")) ]

\* one row: parameter, user, network, diff, diff %
comparison_row(name, user, network) ==
  [ parameter |-> name, user |-> user, network |-> network,
    diff |-> RSub(user, network),
    diff_percent |-> IF RLess(RInt(0), network)
                       THEN RMul(RDiv(RSub(user, network), network), RInt(100))
                       ELSE RInt(0) ]

\* our_vsize = our_stats['avg_weight'] / 4
our_vsize(ours) == RDiv(ours.avg_weight, RInt(4))

comparison_table(ours, network) ==
  << comparison_row("Fee (lit/vB)", ours.avg_fee_per_byte, network.avg_fee_per_byte),
     comparison_row("Size (bytes)", ours.avg_size, network.avg_size),
     comparison_row("Virtual Size (vB)", our_vsize(ours), network.avg_vsize),
     comparison_row("Inputs", ours.avg_inputs, network.avg_inputs),
     comparison_row("Outputs", ours.avg_outputs, network.avg_outputs) >>

\* main() after analyze_network_transactions
ReportLtc ==
  /\ pc = "ltc_report"
  /\ IF network_transactions = <<>>
       THEN /\ log' = Append(log, <<"warning", "no_network_transactions">>)
            /\ UNCHANGED <<outputs, table_data>>
       ELSE /\ log' = log
            /\ table_data' = comparison_table(our_stats[1],
                                              network_stats_ltc(network_transactions))
            /\ outputs' = outputs \cup {"printed_table", "report_file"}
  /\ pc' = "done"
  /\ UNCHANGED <<classVars, cfgVars, calls, exception, tokIdx, my_transactions,
                 blocks_to_analyze, blocks, tokens_in_my_txs, tokens_analyzed,
                 blkIdx, txIdx,
                 txsLeft, token_counters, network_data, ltcVars>>

(***************************************************************************)
(* The run                                                                 *)
(***************************************************************************)
IdleClassifier == c_in = <<>> /\ c_out = <<>>

InitRun ==
  /\ net \in Nets
  /\ MY_ADDRESS \in ConfiguredAddresses
  /\ API_KEY \in ConfiguredKeys
  /\ pc = "start"
  /\ calls = <<>>
  /\ log = <<>>
  /\ exception = "none"
  /\ outputs = {}
  /\ tokIdx = 0
  /\ my_transactions = <<>>
  /\ blocks_to_analyze = {}
  /\ blocks = <<>>
  /\ tokens_in_my_txs = {}
  /\ tokens_analyzed = <<>>
  /\ blkIdx = 0
  /\ txIdx = 0
  /\ txsLeft = 0
  /\ token_counters = <<>>
  /\ network_data = <<>>
  /\ table_data = <<>>
  /\ our_stats = <<>>
  /\ recent_blocks = <<>>
  /\ network_transactions = <<>>

Init == InitRun /\ IdleClassifier

Next ==
  \/ MainAcct
  \/ CollectToken
  \/ AfterCollect
  \/ FetchBlock
  \/ ScanTx
  \/ EndBlock
  \/ ReportAcct
  \/ MainLtc
  \/ OurStats
  \/ RecentBlocks
  \/ FetchBlockLtc
  \/ ScanTxLtc
  \/ EndBlockLtc
  \/ ReportLtc

Spec == Init /\ [][Next]_vars

(***************************************************************************)
(* The classifier on its own: is_token_transfer applied to one drawn       *)
(* transaction and one configured token                                    *)
(***************************************************************************)
IdleRun ==
  /\ net = "none"
  /\ MY_ADDRESS = <<>>
  /\ API_KEY = <<>>
  /\ pc = "idle"
  /\ calls = <<>>
  /\ log = <<>>
  /\ exception = "none"
  /\ outputs = {}
  /\ tokIdx = 0
  /\ my_transactions = <<>>
  /\ blocks_to_analyze = {}
  /\ blocks = <<>>
  /\ tokens_in_my_txs = {}
  /\ tokens_analyzed = <<>>
  /\ blkIdx = 0
  /\ txIdx = 0
  /\ txsLeft = 0
  /\ token_counters = <<>>
  /\ network_data = <<>>
  /\ table_data = <<>>
  /\ our_stats = <<>>
  /\ recent_blocks = <<>>
  /\ network_transactions = <<>>

InitClassify ==
  /\ IdleRun
  /\ \E n \in AccountNets :
       \E tx \in ClassifyTxs(n), i \in DOMAIN NETWORK_TOKENS(n) :
         c_in = << [n |-> n, tx |-> tx, token_address |-> NETWORK_TOKENS(n)[i][2]] >>
  /\ c_out = <<>>

Classify ==
  /\ c_in # <<>>
  /\ c_out = <<>>
  /\ c_out' = << is_token_transfer(c_in[1].n, c_in[1].tx, c_in[1].token_address) >>
  /\ UNCHANGED <<runVars, c_in>>

NextClassify == Classify

SpecClassify == InitClassify /\ [][NextClassify]_vars

(***************************************************************************)
(* The aggregation on its own: analyze_data applied to one drawn list of   *)
(* records                                                                 *)
(***************************************************************************)
\* records as collect_my_transactions and collect_network_transfers build
\* them; fee = gas_used * gas_price
AnalyzeRecord(token, gas_used, gas_price, gas_limit) ==
  [ token |-> token, hash |-> <<>>, block |-> 1,
    gas_used |-> gas_used, gas_price |-> gas_price, gas_limit |-> gas_limit,
    fee |-> gas_used * gas_price ]

AnalyzeRecords ==
  { AnalyzeRecord(t, g[1], g[2], g[3]) :
      t \in {"eth", "usdt"}, g \in {<<0, 1, 1>>, <<1, 1, 2>>, <<2, 3, 4>>} }

InitAnalyze ==
  /\ IdleRun
  /\ \E txs \in SeqsUpTo(AnalyzeRecords, MaxRecords) : c_in = << [txs |-> txs] >>
  /\ c_out = <<>>

Analyze ==
  /\ c_in # <<>>
  /\ c_out = <<>>
  /\ c_out' = << analyze_data(c_in[1].txs) >>
  /\ UNCHANGED <<runVars, c_in>>

\* the entry a defaultdict creates when a missing key is indexed
zero_entry ==
  [ count |-> 0, total_gas_used |-> 0, total_gas_price |-> 0,
    total_gas_limit |-> 0, total_fee |-> 0 ]

\* stats[token_name]: the value read and the mapping it leaves behind, which
\* has gained the default entry when the key was missing
stats_getitem(stats, token_name) ==
  IF token_name \in DOMAIN stats
    THEN [value |-> stats[token_name], stats |-> stats]
    ELSE [value |-> zero_entry,
          stats |-> [t \in DOMAIN stats \cup {token_name} |->
                       IF t = token_name THEN zero_entry ELSE stats[t]]]

\* stats.get(token_name, {}): the value read ({} as <<>>) and the mapping it
\* leaves behind; get never inserts, on a defaultdict either
stats_get(stats, token_name) ==
  [value |-> IF token_name \in DOMAIN stats THEN stats[token_name] ELSE <<>>,
   stats |-> stats]

RECURSIVE stats_after_report(_, _)
\* the mapping after generate_report has read it for each token of the list
stats_after_report(stats, tokens) ==
  IF tokens = <<>> THEN stats
  ELSE stats_after_report(stats_get(stats, Head(tokens)).stats, Tail(tokens))

\* the tokens generate_report is run over: data["tokens_analyzed"]
ReportTokens == <<"eth", "usdt", "usdc">>

\* generate_report reading the aggregated mapping
ReadReport ==
  /\ Len(c_out) = 1
  /\ c_out' = Append(c_out, stats_after_report(c_out[1], ReportTokens))
  /\ UNCHANGED <<runVars, c_in>>

NextAnalyze == Analyze \/ ReadReport

SpecAnalyze == InitAnalyze /\ [][NextAnalyze]_vars

(***************************************************************************)
(* The fee rate on its own: calculate_fee_per_byte and is_cpfp_transaction *)
(* applied to one drawn transaction                                        *)
(***************************************************************************)
\* transactions of any fee, weight and size, each field present or absent
FeeTxs ==
  { LtcTx(fee, weight, size, vin, TRUE) :
      fee \in {Absent, 0, 3, 6},
      weight \in {Absent, 0, 6, 8},
      size \in {Absent, 0, 2, 3},
      vin \in {OneInput, SixInputs} }

InitFee ==
  /\ IdleRun
  /\ \E tx \in FeeTxs : c_in = << [tx |-> tx] >>
  /\ c_out = <<>>

FeeRate ==
  /\ c_in # <<>>
  /\ c_out = <<>>
  /\ c_out' = << [ fee_per_byte |-> calculate_fee_per_byte(c_in[1].tx)[1],
                   vsize |-> calculate_fee_per_byte(c_in[1].tx)[2],
                   cpfp |-> is_cpfp_transaction(c_in[1].tx) ] >>
  /\ UNCHANGED <<runVars, c_in>>

NextFee == FeeRate

SpecFee == InitFee /\ [][NextFee]_vars

(***************************************************************************)
(* Properties                                                              *)
(***************************************************************************)
\* C1: after a sampling pass, the sample holds at most MAX_NETWORK_EXAMPLES
\* records of every token, however many matching transactions the scanned
\* blocks hold (the per-token counter counts over the whole pass).
C1_SampleWithinCap ==
  net \in AccountNets =>
    \A t \in TokenNames(net) : CountToken(network_data, t) <= MAX_NETWORK_EXAMPLES

SenderIsOwn(tx) == Lower(tx.from) = Lower(MY_ADDRESS)

\* C2: on every account-model network, scanning a block transaction whose
\* sender is the user's own address (letter case ignored) adds nothing to the
\* network sample.
C2_OwnSenderNeverSampled ==
  [][\A tx \in BlockTxs(net), rc \in [DOMAIN NETWORK_TOKENS(net) -> Receipts] :
       (ScanTxWith(tx, rc) /\ SenderIsOwn(tx)) => network_data' = network_data]_vars

Classified == c_out # <<>>
ClassifiedNative == Classified /\ c_in[1].token_address = ZERO_ADDRESS
ClassifiedToken == Classified /\ c_in[1].token_address # ZERO_ADDRESS

RecipientPresent(tx) == tx.to # None /\ Len(tx.to) > 0
\* the value field read as a number is positive: some digit after the 0x
\* prefix is not 0
ValuePositive(tx) ==
  /\ tx.value # None
  /\ \E i \in 3..Len(tx.value) : tx.value[i] # "0"
PayloadEmpty(tx) == tx.input \in {<<>>, <<"0","x">>}

\* C3: for the native asset the classifier returns true exactly when the
\* recipient is present, the value is a positive integer and the payload is
\* empty.
C3_NativeTransferExact ==
  ClassifiedNative =>
    (c_out[1] <=> (RecipientPresent(c_in[1].tx) /\ ValuePositive(c_in[1].tx)
                     /\ PayloadEmpty(c_in[1].tx)))

UpperChar(c) ==
  CASE c = "a" -> "A" [] c = "b" -> "B" [] c = "c" -> "C"
    [] c = "d" -> "D" [] c = "e" -> "E" [] c = "f" -> "F"
    [] OTHER -> c
EqualIgnoringCase(a, b) ==
  Len(a) = Len(b) /\ \A i \in 1..Len(a) : UpperChar(a[i]) = UpperChar(b[i])
BeginsWithSelector(input) ==
  /\ input # None
  /\ Len(input) >= 10
  /\ \A i \in 1..10 : input[i] = SELECTOR[i]

\* C4: for a token asset the classifier returns true exactly when the
\* recipient equals the contract address ignoring letter case and the payload
\* starts with the selector 0xa9059cbb.
C4_TokenTransferExact ==
  ClassifiedToken =>
    (c_out[1] <=> (/\ RecipientPresent(c_in[1].tx)
                   /\ EqualIgnoringCase(c_in[1].tx.to, c_in[1].token_address)
                   /\ BeginsWithSelector(c_in[1].tx.input)))

\* C4 witness: a transfer call to the contract, the recipient written in
\* another letter case than the configured address, is classified true
C4_Witness ==
  /\ ClassifiedToken
  /\ c_out[1]
  /\ c_in[1].tx.to # c_in[1].token_address

\* C5: no exception leaves the run, whichever data-source call fails.
C5_NoExceptionEscapes == exception = "none"

ConfigComplete ==
  /\ MY_ADDRESS # <<>>
  /\ net \in AccountNets => API_KEY \notin {<<>>, PLACEHOLDER_KEY}
NoOwnTransactions ==
  IF net \in AccountNets THEN my_transactions = <<>> ELSE our_stats = <<>>
NoNetworkTransfers ==
  IF net \in AccountNets THEN network_data = <<>> ELSE network_transactions = <<>>
LastLogIsWarning == log # <<>> /\ log[Len(log)][1] = "warning"

\* C6: a run that found no own transactions, or whose sampling returned no
\* transfers, ends with a warning and without a printed table or a report
\* file, on the account-model networks as well as on the UTXO network.
C6_NoReportWithoutBasis ==
  (pc = "done" /\ ConfigComplete /\ (NoOwnTransactions \/ NoNetworkTransfers)) =>
    (outputs \cap {"printed_table", "report_file"} = {} /\ LastLogIsWarning)

\* the own address is missing, or the API credential the analyzer reads is
\* missing (or still the placeholder of the configuration template)
ConfigMissing ==
  \/ MY_ADDRESS = <<>>
  \/ net \in AccountNets /\ API_KEY \in {<<>>, PLACEHOLDER_KEY}

BlockFetches == SelectSeq(calls, LAMBDA e : e[1] = "get_block_transactions")
OwnBlocks == {my_transactions[i].block : i \in DOMAIN my_transactions}

\* C8: the sampler issues exactly one block fetch per distinct block number
\* of the own transactions: no block is fetched twice, and once the pass has
\* returned every block of an own transaction has been fetched.
C8_OneFetchPerBlock ==
  net \in AccountNets =>
    /\ \A i, j \in DOMAIN BlockFetches :
         i # j => BlockFetches[i][2] # BlockFetches[j][2]
    /\ \A i \in DOMAIN BlockFetches : BlockFetches[i][2][1] \in OwnBlocks
    /\ pc \in {"report", "done"} /\ blocks # <<>> =>
         {BlockFetches[i][2][1] : i \in DOMAIN BlockFetches} = OwnBlocks

\* C8 witness: two own transactions in one block, the pass has returned
\* after a single block fetch
C8_Witness ==
  /\ net \in AccountNets
  /\ pc = "report"
  /\ \E i, j \in DOMAIN my_transactions :
       i # j /\ my_transactions[i].block = my_transactions[j].block
  /\ Len(BlockFetches) = 1

\* the place of a token's first own transaction
FirstSeen(t) ==
  CHOOSE i \in DOMAIN my_transactions :
    /\ my_transactions[i].token = t
    /\ \A j \in 1..(i - 1) : my_transactions[j].token # t

\* C9: the rows of the table are in the order in which the tokens first
\* appeared in the own transactions.
C9_RowsInDiscoveryOrder ==
  (net \in AccountNets /\ pc = "done") =>
    \A i, j \in DOMAIN table_data :
      i < j => FirstSeen(table_data[i].key) < FirstSeen(table_data[j].key)

\* fee per byte of tx compared with k, by cross-multiplication: the rate is
\* fee / (weight / 4) with a weight, fee / size without one, 0 for size 0
HasWeight(tx) == tx.weight # Absent /\ tx.weight > 0
SizeOf(tx) == IF tx.size = Absent THEN 1 ELSE tx.size
RateBelow(tx, k) ==
  IF HasWeight(tx) THEN 4 * tx.fee < k * tx.weight
  ELSE IF SizeOf(tx) > 0 THEN tx.fee < k * SizeOf(tx)
  ELSE 0 < k
RateAbove(tx, k) ==
  IF HasWeight(tx) THEN 4 * tx.fee > k * tx.weight
  ELSE IF SizeOf(tx) > 0 THEN tx.fee > k * SizeOf(tx)
  ELSE 0 > k
Retainable(tx) ==
  /\ \A i \in DOMAIN tx.vin : ~tx.vin[i].is_coinbase
  /\ ~(Len(tx.vin) > 5 /\ RateBelow(tx, 2))
  /\ RateAbove(tx, 0)
  /\ ~RateAbove(tx, 8)

\* C10: a transaction of a scanned block is added to the network sample
\* exactly when it has no coinbase input, is no CPFP candidate (more than 5
\* inputs and a fee per byte below 2.0) and its fee per byte lies in (0, 8.0];
\* every record of the sample has fee_per_byte > 0.
C10_UtxoRetention ==
  /\ [][\A tx \in LtcTxs :
          ScanTxLtcWith(tx) =>
            ((Len(network_transactions') = Len(network_transactions) + 1)
               <=> Retainable(tx))]_vars
  /\ [](\A i \in DOMAIN network_transactions :
          network_transactions[i].fee_per_byte[1] > 0
            /\ network_transactions[i].fee_per_byte[2] > 0)

\* C10 witness: the sample holds a 6-input transaction at 8.0 per byte, and
\* a block has been scanned to its end
C10_Witness ==
  /\ net = "litecoin"
  /\ pc = "ltc_report"
  /\ \E i \in DOMAIN network_transactions :
       /\ network_transactions[i].inputs = 6
       /\ network_transactions[i].fee_per_byte = <<8, 1>>

\* a transaction the network sample drops by its exclusions: a coinbase
\* input, or more than 5 inputs with a fee per byte below 2.0
ExcludedFromSample(tx) ==
  \/ \E i \in DOMAIN tx.vin : tx.vin[i].is_coinbase
  \/ Len(tx.vin) > 5 /\ RateBelow(tx, 2)
\* how many entries of a list are confirmed, pass the exclusions and have a
\* positive fee per byte
Admissible(txs) ==
  Cardinality({i \in DOMAIN txs :
                 txs[i].confirmed /\ ~ExcludedFromSample(txs[i]) /\ RateAbove(txs[i], 0)})

\* C11: the own statistics count no transaction that the exclusions of the
\* network sample (coinbase input, CPFP heuristic) would drop, and none
\* whose fee per byte is not positive: the number of contributing own
\* transactions is at most the number of such entries of the answer.
C11_OwnExclusionsAsNetwork ==
  [][pc = "our_stats" =>
       \A ans \in OwnLtcAnswers :
         (OurStatsWith(ans) /\ our_stats' # <<>>) =>
           our_stats'[1].total_txs <= Admissible(ans.txs)]_vars

Analyzed == c_out # <<>>
\* the entries of a record list that carry the token t
OfToken(txs, t) == {i \in DOMAIN txs : txs[i].token = t}
RECURSIVE Total(_, _, _, _)
\* the sum of field f over the entries of token t among the first n entries
Total(txs, t, f, n) ==
  IF n = 0 THEN 0
  ELSE Total(txs, t, f, n - 1) + (IF txs[n].token = t THEN txs[n][f] ELSE 0)
\* avg * count = sum, as rational numbers
MeanIsExact(avg, count, sum) == avg[1] * count = sum * avg[2]

\* C12: for every asset with records, count is the number of its records and
\* each average (fee, gas used, gas price, gas limit) times the count equals
\* the exact sum of the metric over its records.
C12_MeanTimesCountIsSum ==
  Analyzed =>
    \A t \in {"eth", "usdt"} :
      OfToken(c_in[1].txs, t) # {} =>
        LET txs == c_in[1].txs
            st == c_out[1][t]
            n == Len(txs)
        IN  /\ st.count = Cardinality(OfToken(txs, t))
            /\ MeanIsExact(st.avg_fee, st.count, Total(txs, t, "fee", n))
            /\ MeanIsExact(st.avg_gas_used, st.count, Total(txs, t, "gas_used", n))
            /\ MeanIsExact(st.avg_gas_price, st.count, Total(txs, t, "gas_price", n))
            /\ MeanIsExact(st.avg_gas_limit, st.count, Total(txs, t, "gas_limit", n))

\* how many values of a list lie below v, and how many at or below it
Below(vals, v) == Cardinality({i \in DOMAIN vals : RLess(vals[i], v)})
AtMost(vals, v) == Cardinality({i \in DOMAIN vals : ~RLess(v, vals[i])})
\* the k-th smallest value of a list, by rank
Ranked(vals, k) ==
  CHOOSE v \in {vals[i] : i \in DOMAIN vals} : Below(vals, v) < k /\ k <= AtMost(vals, v)
\* the middle value of an odd-sized list, the mean of the two middle values
\* of an even-sized one
TrueMedian(vals) ==
  LET n == Len(vals)
  IN  IF n % 2 = 1 THEN Ranked(vals, (n + 1) \div 2)
      ELSE RDiv(RAdd(Ranked(vals, n \div 2), Ranked(vals, n \div 2 + 1)), RInt(2))
\* the confirmed entries among the first OUR_TRANSACTIONS_LIMIT of an answer
ConfirmedOwn(txs) == SelectSeq(Take(txs, OUR_TRANSACTIONS_LIMIT), LAMBDA tx : tx.confirmed)
OwnMediansTrue(ans) ==
  LET conf == ConfirmedOwn(ans.txs)
      st == our_stats'[1]
  IN  /\ st.avg_fee_per_byte
           = TrueMedian([i \in DOMAIN conf |-> calculate_fee_per_byte(conf[i])[1]])
      /\ st.avg_size = TrueMedian([i \in DOMAIN conf |-> RInt(GetN(conf[i].size, 0))])
      /\ st.avg_weight = TrueMedian([i \in DOMAIN conf |-> RInt(GetN(conf[i].weight, 0))])
      /\ st.avg_inputs = TrueMedian([i \in DOMAIN conf |-> RInt(Len(conf[i].vin))])
      /\ st.avg_outputs = TrueMedian([i \in DOMAIN conf |-> RInt(conf[i].vout)])
NetworkMediansTrue ==
  LET sample == network_transactions
      st == network_stats_ltc(sample)
  IN  /\ st.avg_fee_per_byte = TrueMedian(Column(sample, "fee_per_byte"))
      /\ st.avg_size = TrueMedian(Ints(Column(sample, "size")))
      /\ st.avg_weight = TrueMedian(Ints(Column(sample, "weight")))
      /\ st.avg_inputs = TrueMedian(Ints(Column(sample, "inputs")))
      /\ st.avg_outputs = TrueMedian(Ints(Column(sample, "outputs")))
      /\ st.avg_vsize = TrueMedian(Column(sample, "vsize"))
      /\ (ReportLtc =>
            /\ table_data'[1].network = st.avg_fee_per_byte
            /\ table_data'[2].network = st.avg_size
            /\ table_data'[3].network = st.avg_vsize
            /\ table_data'[4].network = st.avg_inputs
            /\ table_data'[5].network = st.avg_outputs)

IsPercentDelta(d, mine, network) ==
  IF network[1] > 0
    THEN /\ d[2] > 0
         /\ d[1] * mine[2] * network[1]
              = 100 * (mine[1] * network[2] - network[1] * mine[2]) * d[2]
    ELSE d = <<0, 1>>
AccountRowDeltas(row) ==
  /\ IsPercentDelta(row.fee_diff_percent, row.my_avg_fee, row.network_avg_fee)
  /\ IsPercentDelta(row.gas_limit_diff_percent, row.my_avg_gas_limit,
                    row.network_avg_gas_limit)
  /\ net = "arbitrum" =>
       /\ IsPercentDelta(row.gas_used_diff_percent, row.my_avg_gas_used,
                         row.network_avg_gas_used)
       /\ IsPercentDelta(row.gas_price_diff_percent, row.my_avg_gas_price,
                         row.network_avg_gas_price)
PercentSamples == {RInt(0), RInt(1), RInt(90), RInt(100), RInt(110), <<7, 2>>}

\* percent_diff on sample values
PercentExamples ==
  /\ \A x \in PercentSamples :
       /\ percent_diff(x, RInt(0)) = RInt(0)
       /\ \A y \in PercentSamples : IsPercentDelta(percent_diff(x, y), x, y)
  /\ percent_diff(RInt(110), RInt(100)) = RInt(10)
  /\ percent_diff(RInt(90), RInt(100)) = RInt(0 - 10)

\* C14: every percentage of a report row is (mine - network) / network * 100
\* when the network statistic is positive and 0 otherwise, with a non-zero
\* denominator throughout; percent_diff(x, 0) = 0, percent_diff(110, 100) = 10
\* and percent_diff(90, 100) = -10.
C14_PercentDelta ==
  /\ \A i \in DOMAIN table_data :
       IF net = "litecoin"
         THEN IsPercentDelta(table_data[i].diff_percent, table_data[i].user,
                             table_data[i].network)
         ELSE AccountRowDeltas(table_data[i])
  /\ PercentExamples

\* C14 witness: a printed table one of whose rows has a network statistic of
\* 0 against a non-zero own one (percentage 0) and another a non-zero
\* percentage
C14_Witness ==
  /\ net = "litecoin"
  /\ \E i \in DOMAIN table_data :
       table_data[i].network[1] = 0 /\ table_data[i].user[1] # 0
  /\ \E i \in DOMAIN table_data : table_data[i].diff_percent[1] # 0

\* the assets that have a record in a list of records
AssetsOf(records) == {records[i].token : i \in DOMAIN records}
RecordsOf(records, t) == Cardinality({i \in DOMAIN records : records[i].token = t})
Reported == net \in AccountNets /\ pc = "done" /\ "printed_table" \in outputs

\* C15: the table of an account-model report has one row for each asset that
\* has both an own record and a sampled record, and no other row; the counts
\* of a row are the numbers of those records, both at least 1.
C15_RowIffBothSides ==
  Reported =>
    /\ {table_data[i].key : i \in DOMAIN table_data}
         = AssetsOf(my_transactions) \cap AssetsOf(network_data)
    /\ \A i, j \in DOMAIN table_data : table_data[i].key = table_data[j].key => i = j
    /\ \A i \in DOMAIN table_data :
         /\ table_data[i].my_count = RecordsOf(my_transactions, table_data[i].key)
         /\ table_data[i].network_count = RecordsOf(network_data, table_data[i].key)
         /\ table_data[i].my_count >= 1
         /\ table_data[i].network_count >= 1

\* C15 witness: a report over two own assets, one of them without a sampled
\* record: one row
C15_Witness ==
  /\ Reported
  /\ Cardinality(AssetsOf(my_transactions)) = 2
  /\ Cardinality(AssetsOf(network_data)) = 1
  /\ Len(table_data) = 1

\* C16: the statistics mapping, as the aggregation returns it and as the
\* report builder leaves it after its reads, has a key for an asset exactly
\* when the list holds a record of that asset, and every entry has a count
\* above 0.
C16_NoZeroFilledEntry ==
  \A k \in DOMAIN c_out :
    /\ \A t \in {"eth", "usdt", "usdc"} :
         t \in DOMAIN c_out[k] <=> OfToken(c_in[1].txs, t) # {}
    /\ \A t \in DOMAIN c_out[k] : c_out[k][t].count > 0

\* C16 witness: the report builder has read a mapping built from records of
\* one asset only, for that asset and for two assets without records
C16_Witness ==
  /\ Len(c_out) = 2
  /\ OfToken(c_in[1].txs, "eth") # {}
  /\ OfToken(c_in[1].txs, "usdt") = {}

\* C17: no asset has more own records than MAX_MY_TRANSACTIONS, and the
\* UTXO statistics are over at most OUR_TRANSACTIONS_LIMIT transactions,
\* whatever list the data source returns.
C17_OwnWithinLimit ==
  /\ \A t \in AssetsOf(my_transactions) :
       RecordsOf(my_transactions, t) <= MAX_MY_TRANSACTIONS
  /\ our_stats # <<>> => our_stats[1].total_txs <= OUR_TRANSACTIONS_LIMIT

\* the blocks that can hold a confirmed transaction of an address answer
OwnLtcHeights == {tx.block_height : tx \in {t \in OwnLtcTxs : t.confirmed}}
\* the block requests of the UTXO path
LtcBlockRequests == SelectSeq(calls, LAMBDA e : e[1] \in {"block_height", "block_txs"})

\* C18: every block the sampling pass requests is the block of an own
\* transaction, in the account model and in the UTXO path.
C18_ScannedAreOwnBlocks ==
  /\ net \in AccountNets =>
       \A i \in DOMAIN BlockFetches : BlockFetches[i][2][1] \in OwnBlocks
  /\ net = "litecoin" =>
       \A i \in DOMAIN LtcBlockRequests : LtcBlockRequests[i][2][1] \in OwnLtcHeights

\* C19: the scan of one block transaction adds at most one record to the
\* network sample.
C19_OneRecordPerTransaction ==
  [][pc = "scan" =>
       \A tx \in BlockTxs(net), rc \in [DOMAIN NETWORK_TOKENS(net) -> Receipts] :
         ScanTxWith(tx, rc) => Len(network_data') <= Len(network_data) + 1]_vars

ReceiptFailed(e) == e[1] = "get_transaction_receipt" /\ ~e[3]

ReceiptReturned(e) == e[1] = "get_transaction_receipt" /\ e[3]
\* the records of the sample with a given hash, and the receipt fetches for
\* that hash that returned a receipt
RecordsWithHash(h) == {i \in DOMAIN network_data : network_data[i].hash = h}
ReceiptsReturnedFor(h) == {i \in DOMAIN calls : ReceiptReturned(calls[i]) /\ calls[i][2] = h}
\* the records of token t taken from the block being scanned
RecordsInBlock(t) ==
  {i \in DOMAIN network_data :
     network_data[i].token = t /\ network_data[i].block = blocks[blkIdx]}

\* C20: a match whose receipt fetch returns no receipt leaves no record and
\* raises no counter: the sample holds as many records of a transaction as
\* receipt fetches for it returned a receipt, and while a block is scanned an
\* asset's counter is the number of records taken from that block for it.
C20_NoReceiptNoRecord ==
  net \in AccountNets =>
    /\ \A i \in DOMAIN calls :
         calls[i][1] = "get_transaction_receipt" =>
           Cardinality(RecordsWithHash(calls[i][2]))
             = Cardinality(ReceiptsReturnedFor(calls[i][2]))
    /\ Len(network_data)
         = Cardinality({i \in DOMAIN calls : ReceiptReturned(calls[i])})
    /\ pc = "scan" =>
         \A t \in DOMAIN token_counters :
           token_counters[t] = Cardinality(RecordsInBlock(t))

\* C20 witness: a matched transaction's receipt fetch has failed, the block
\* is scanned to its end and the sample and the counters are still empty
C20_Witness ==
  /\ net \in AccountNets
  /\ pc = "scan"
  /\ txsLeft = 0
  /\ \E i \in DOMAIN calls : ReceiptFailed(calls[i])
  /\ network_data = <<>>
  /\ \A t \in DOMAIN token_counters : token_counters[t] = 0

\* a data-source call, as opposed to a delay
Outbound(e) == e[1] # "sleep"
SameRequest(e, f) == e[1] = f[1] /\ e[2] = f[2]

\* C21: once a data-source call has failed, the run issues no later call of
\* the same operation with the same argument.
C21_NoRetryAfterFailure ==
  \A i, j \in DOMAIN calls :
    (i < j /\ Outbound(calls[i]) /\ ~calls[i][3]) => ~SameRequest(calls[i], calls[j])

\* C22: no two data-source calls are issued one right after the other: a
\* delay lies between any two consecutive ones.
C22_DelayBetweenCalls ==
  \A i \in 1..(Len(calls) - 1) : ~(Outbound(calls[i]) /\ Outbound(calls[i + 1]))

FeeRated == c_out # <<>> /\ "vsize" \in DOMAIN c_out[1]
\* the byte size the analyzer reports for a transaction: tx.get('size', 0)
RawSize(tx) == IF tx.size = Absent THEN 0 ELSE tx.size
WeightPositive(tx) == tx.weight # Absent /\ tx.weight > 0
FeeOf(tx) == IF tx.fee = Absent THEN 0 ELSE tx.fee

\* C23: the virtual size is weight / 4 for a positive weight and the byte
\* size otherwise (0 for a transaction without a size field); the fee per
\* byte is fee / virtual size, and 0 when the virtual size is 0; no quotient
\* has a zero divisor.
C23_FeePerVirtualByte ==
  FeeRated =>
    LET tx == c_in[1].tx
        v == c_out[1].vsize
        r == c_out[1].fee_per_byte
    IN  /\ v[2] > 0 /\ r[2] > 0
        /\ IF WeightPositive(tx) THEN 4 * v[1] = tx.weight * v[2]
           ELSE v[1] = RawSize(tx) * v[2]
        /\ IF v[1] = 0 THEN r = <<0, 1>>
           ELSE r[1] * v[1] = FeeOf(tx) * r[2] * v[2]

\* the virtual sizes of the confirmed own transactions, each as the network
\* sample records it: calculate_fee_per_byte's vsize
OwnVirtualSizes(txs) ==
  [i \in DOMAIN ConfirmedOwn(txs) |-> calculate_fee_per_byte(ConfirmedOwn(txs)[i])[2]]

\* C24: the own side of the Virtual Size row is the median of the virtual
\* sizes of the own transactions, the virtual size of a transaction being
\* what the network side records for one (weight / 4 for a positive weight,
\* else the size).
C24_SameVirtualSize ==
  [][pc = "our_stats" =>
       \A ans \in OwnLtcAnswers :
         (OurStatsWith(ans) /\ our_stats' # <<>>) =>
           our_vsize(our_stats'[1]) = TrueMedian(OwnVirtualSizes(ans.txs))]_vars

\* the gas a returned receipt reports
ReceiptGas == {ParseInt(r.gasUsed, 16) : r \in {x \in Receipts : x.found}}
FeeIsProduct(rec) == rec.fee = rec.gas_used * rec.gas_price /\ rec.fee >= 0

\* C25: every own record and every record of the network sample has
\* fee = gas_used * gas_price, not negative; the gas_used of a sampled
\* record is the gasUsed of the receipt fetched for it.
C25_FeeIsGasTimesPrice ==
  net \in AccountNets =>
    /\ \A i \in DOMAIN my_transactions : FeeIsProduct(my_transactions[i])
    /\ \A i \in DOMAIN network_data :
         /\ FeeIsProduct(network_data[i])
         /\ network_data[i].gas_used \in ReceiptGas

\* C25 witness: own records and a sampled record whose gas limit differs
\* from the gas its receipt reports
C25_Witness ==
  /\ net \in AccountNets
  /\ my_transactions # <<>>
  /\ \E i \in DOMAIN my_transactions : my_transactions[i].fee > 0
  /\ \E i \in DOMAIN network_data :
       /\ network_data[i].gas_limit # network_data[i].gas_used
       /\ network_data[i].fee > 0

\* the records of token t that the sample took from block b
RecordsFrom(t, b) ==
  {i \in DOMAIN network_data : network_data[i].token = t /\ network_data[i].block = b}

\* C26: the sample holds at most MAX_NETWORK_EXAMPLES records of an asset
\* from any one block, hence at most that many times the number of blocks
\* fetched so far of any one asset.
C26_CapPerBlock ==
  net \in AccountNets =>
    \A t \in TokenNames(net) :
      /\ \A i \in DOMAIN blocks :
           Cardinality(RecordsFrom(t, blocks[i])) <= MAX_NETWORK_EXAMPLES
      /\ CountToken(network_data, t) <= Len(BlockFetches) * MAX_NETWORK_EXAMPLES

\* C26 witness: two blocks scanned, the sample holding the most it can hold
\* of one asset
C26_Witness ==
  /\ net \in AccountNets
  /\ pc = "report"
  /\ Len(BlockFetches) = 2
  /\ CountToken(network_data, "eth") = 2 * MAX_NETWORK_EXAMPLES

Listed(l) == {l[i] : i \in DOMAIN l}
DataFileWritten == net \in AccountNets /\ "data_file" \in outputs

\* C27: every record of the network sample has a block among the blocks
\* passed to the sampler and a token among the tokens to find; in the data
\* file its block is in blocks_analyzed and its token in tokens_analyzed;
\* every block to analyze is the positive block number of an own
\* transaction.
C27_SampleWithinInputs ==
  net \in AccountNets =>
    /\ \A i \in DOMAIN network_data :
         /\ network_data[i].block \in Listed(blocks)
         /\ network_data[i].token \in tokens_in_my_txs
    /\ \A b \in Listed(blocks) \cup blocks_to_analyze :
         b > 0 /\ \E i \in DOMAIN my_transactions : my_transactions[i].block = b
    /\ DataFileWritten =>
         \A i \in DOMAIN network_data : network_data[i].token \in Listed(tokens_analyzed)

\* C27 witness: a data file over two blocks and two tokens with a sampled
\* record
C27_Witness ==
  /\ DataFileWritten
  /\ Len(blocks) = 2
  /\ Len(tokens_analyzed) = 2
  /\ network_data # <<>>

=============================================================================
